---- MODULE Spec2Model ----
(***************************************************************************)
(* Multi-agent task orchestrator: the Task State (AgentState), the         *)
(* Supervisor FSM (supervisor_node), the three performers (planner_node,   *)
(* executor_node, critic_node) and the routing graph (build_graph) that    *)
(* runs one node per step and merges the node's returned dict into the     *)
(* state, inside the POST /run handler (run_agent) that stores the         *)
(* conversation in a session document.                                     *)
(***************************************************************************)
EXTENDS Integers, Sequences, FiniteSets, TLC

VARIABLES
    state,      \* the AgentState dict threaded through the graph
    node,       \* where the /run request stands: the handler's step before and after
                \* the graph, the graph node that runs next inside it; "END" after
                \* the run, "error" if the Supervisor or the routing raised,
                \* "outage" if a performer did, "recursion_error" if the graph's
                \* superstep limit was used up
    ticks,      \* node executions so far (the graph's superstep counter)
    exec_log,   \* history: one <<step index, content or None>> per executor invocation
    critic_llm_calls, \* history: critic invocations that reached the language model
    approves,   \* the critic model's verdict policy: the contents it approves
    reply,      \* the planner model's reply the planner has just parsed
    session,    \* the session document of this request in the store
    http,       \* the response of the /run request
    patch,      \* the response of a PATCH /sessions/{id} request made after the run
    runs,       \* two /run requests side by side: each one's Task State, node and ticks
    heap        \* the list objects the two requests' `events` keys refer to

vars == <<state, node, ticks, exec_log, critic_llm_calls, approves, reply, session, http,
          patch, runs, heap>>

----------------------------------------------------------------------------
(* Bounds of the model *)

\* longest step list the planner's parser can yield before the guards
MaxRawPlan == 5

\* step texts the planner's parser can yield (blank ones and padded ones included)
RawSteps == {"", " ", " A", "B"}

\* contents the executor's model can return (blank ones included)
RawContents == {"", " ", "x", "y"}

\* word counts the executor's model can return
RawWordCounts == {0, 1}

\* goals of a run
Goals == {"goal"}

\* plans of the Task States handed to the Supervisor alone
SupPlans == {<<"A">>, <<"A", "B">>}

----------------------------------------------------------------------------
(* Python values *)

None == "None"
True == "True"
False == "False"

\* str.strip() on the strings of the model
Strip(s) == CASE s = " " -> ""
              [] s = " A" -> "A"
              [] OTHER -> s

\* Python truthiness of an Optional[str]
Truthy(v) == v # None /\ v # ""

\* a or b or c
Or3(a, b, c) == IF Truthy(a) THEN a ELSE IF Truthy(b) THEN b ELSE c

\* a or b
Or2(a, b) == IF Truthy(a) THEN a ELSE b

----------------------------------------------------------------------------
(* Supervisor FSM *)

MAX_RETRIES == 3

START == "start"
PLAN == "plan"
EXECUTE == "execute"
CRITIQUE == "critique"
ADVANCE == "advance"
COMPLETE == "complete"
FAIL == "fail"

SupervisorState == {START, PLAN, EXECUTE, CRITIQUE, ADVANCE, COMPLETE, FAIL}

RetryFallback == "Task stopped after repeated failures. Partial output returned."
UnexpectedFallback == "Unexpected termination. Partial output returned."

\* state.get("fsm_state", SupervisorState.START)
FsmOf(s) == IF s.fsm_state = None THEN START ELSE s.fsm_state

\* mutant: the guard only fires once the budget is exceeded
RetryLimitReached_Strict(retry_count) == retry_count > MAX_RETRIES

\* mutant: the guard fires only after twice the budget
RetryLimitReached_Late(retry_count) == retry_count >= 2 * MAX_RETRIES

\* the terminal retry guard's condition
RetryLimitReached(retry_count) == retry_count >= MAX_RETRIES

\* the FSM correction guard: START with an existing plan is treated as EXECUTE
Corrected(s) == IF FsmOf(s) = START /\ s.plan # <<>> THEN EXECUTE ELSE FsmOf(s)

\* mutant: log() starts a new list with the event
log_Replace(s, action, detail) ==
    <<[agent |-> "supervisor", action |-> action,
       detail |-> detail, step_index |-> s.current_step_index]>>

\* log(): the events list with one supervisor event appended
log(s, action, detail) ==
    Append(s.events, [agent |-> "supervisor", action |-> action,
                      detail |-> detail, step_index |-> s.current_step_index])

\* plan[step_index] in the PLAN branch raises IndexError when out of range
SupervisorRaises(s) ==
    /\ ~RetryLimitReached(s.retry_count)
    /\ Corrected(s) = PLAN
    /\ s.current_step_index >= Len(s.plan)

\* mutant: a rejection that keeps the rejected execution_result
Rejected_KeepsResult(s) ==
    [s EXCEPT !.events = log(s, "rejected", s.critique),
              !.fsm_state = EXECUTE,
              !.retry_count = s.retry_count + 1,
              !.critique = None,
              !.is_approved = None,
              !.next_agent = "executor"]

\* mutant: a rejection that also drops the last good output
Rejected_ClearsLast(s) ==
    [s EXCEPT !.events = log(s, "rejected", s.critique),
              !.fsm_state = EXECUTE,
              !.retry_count = s.retry_count + 1,
              !.execution_result = None,
              !.last_executor_output = None,
              !.critique = None,
              !.is_approved = None,
              !.next_agent = "executor"]

\* mutant: a rejection that forgets to count the retry
Rejected_NoIncrement(s) ==
    [s EXCEPT !.events = log(s, "rejected", s.critique),
              !.fsm_state = EXECUTE,
              !.execution_result = None,
              !.critique = None,
              !.is_approved = None,
              !.next_agent = "executor"]

\* CRITIQUE, rejected: retry_count + 1 and the review slot cleared
Rejected(s) ==
    [s EXCEPT !.events = log(s, "rejected", s.critique),
              !.fsm_state = EXECUTE,
              !.retry_count = s.retry_count + 1,
              !.execution_result = None,
              !.critique = None,
              !.is_approved = None,
              !.next_agent = "executor"]

\* mutant: advancing to the next step drops the last good output
Advance_ClearsLast(s) ==
    LET next_index == s.current_step_index + 1 IN
    IF next_index >= Len(s.plan)
    THEN [s EXCEPT !.events = log(s, "complete_all_steps", None),
                   !.fsm_state = COMPLETE,
                   !.next_agent = "end",
                   !.final_output = Or2(s.last_executor_output, s.execution_result)]
    ELSE [s EXCEPT !.events = log(s, "advance_step",
                                  ToString(next_index + 1) \o "/" \o ToString(Len(s.plan))),
                   !.fsm_state = EXECUTE,
                   !.current_step_index = next_index,
                   !.current_step = s.plan[next_index + 1],
                   !.retry_count = 0,
                   !.execution_result = None,
                   !.last_executor_output = None,
                   !.critique = None,
                   !.is_approved = None,
                   !.next_agent = "executor"]

\* mutant: the last step's ADVANCE takes final_output from execution_result alone
Advance_FinalFromResult(s) ==
    LET next_index == s.current_step_index + 1 IN
    IF next_index >= Len(s.plan)
    THEN [s EXCEPT !.events = log(s, "complete_all_steps", None),
                   !.fsm_state = COMPLETE,
                   !.next_agent = "end",
                   !.final_output = s.execution_result]
    ELSE [s EXCEPT !.events = log(s, "advance_step",
                                  ToString(next_index + 1) \o "/" \o ToString(Len(s.plan))),
                   !.fsm_state = EXECUTE,
                   !.current_step_index = next_index,
                   !.current_step = s.plan[next_index + 1],
                   !.retry_count = 0,
                   !.execution_result = None,
                   !.critique = None,
                   !.is_approved = None,
                   !.next_agent = "executor"]

\* mutant: advancing to the next step keeps the retries of the previous one
Advance_KeepRetries(s) ==
    LET next_index == s.current_step_index + 1 IN
    IF next_index >= Len(s.plan)
    THEN [s EXCEPT !.events = log(s, "complete_all_steps", None),
                   !.fsm_state = COMPLETE,
                   !.next_agent = "end",
                   !.final_output = Or2(s.last_executor_output, s.execution_result)]
    ELSE [s EXCEPT !.events = log(s, "advance_step",
                                  ToString(next_index + 1) \o "/" \o ToString(Len(s.plan))),
                   !.fsm_state = EXECUTE,
                   !.current_step_index = next_index,
                   !.current_step = s.plan[next_index + 1],
                   !.execution_result = None,
                   !.critique = None,
                   !.is_approved = None,
                   !.next_agent = "executor"]

\* mutant: moving to the next step leaves the previous step's text current
Advance_StaleStep(s) ==
    LET next_index == s.current_step_index + 1 IN
    IF next_index >= Len(s.plan)
    THEN [s EXCEPT !.events = log(s, "complete_all_steps", None),
                   !.fsm_state = COMPLETE,
                   !.next_agent = "end",
                   !.final_output = Or2(s.last_executor_output, s.execution_result)]
    ELSE [s EXCEPT !.events = log(s, "advance_step",
                                  ToString(next_index + 1) \o "/" \o ToString(Len(s.plan))),
                   !.fsm_state = EXECUTE,
                   !.current_step_index = next_index,
                   !.retry_count = 0,
                   !.execution_result = None,
                   !.critique = None,
                   !.is_approved = None,
                   !.next_agent = "executor"]

\* ADVANCE: the next step, or COMPLETE after the last one
Advance(s) ==
    LET next_index == s.current_step_index + 1 IN
    IF next_index >= Len(s.plan)
    THEN [s EXCEPT !.events = log(s, "complete_all_steps", None),
                   !.fsm_state = COMPLETE,
                   !.next_agent = "end",
                   !.final_output = Or2(s.last_executor_output, s.execution_result)]
    ELSE [s EXCEPT !.events = log(s, "advance_step",
                                  ToString(next_index + 1) \o "/" \o ToString(Len(s.plan))),
                   !.fsm_state = EXECUTE,
                   !.current_step_index = next_index,
                   !.current_step = s.plan[next_index + 1],
                   !.retry_count = 0,
                   !.execution_result = None,
                   !.critique = None,
                   !.is_approved = None,
                   !.next_agent = "executor"]

\* mutant: the guard ends the run without a final output
RetryGuard_NoOutput(s) ==
    [s EXCEPT !.events = log(s, "retry_limit_reached", "Forcing graceful completion"),
              !.fsm_state = COMPLETE,
              !.next_agent = "end"]

\* mutant: the guard ends the run as a failure
RetryGuard_Fail(s) ==
    [s EXCEPT !.events = log(s, "retry_limit_reached", "Forcing graceful completion"),
              !.fsm_state = FAIL,
              !.next_agent = "end",
              !.final_output = RetryFallback]

\* the terminal retry guard: forced graceful completion
RetryGuard(s) ==
    [s EXCEPT !.events = log(s, "retry_limit_reached", "Forcing graceful completion"),
              !.fsm_state = COMPLETE,
              !.next_agent = "end",
              !.final_output = Or3(s.last_executor_output, s.execution_result,
                                   RetryFallback)]

\* START -> PLAN
Start(s) ==
    [s EXCEPT !.events = log(s, "start", None),
              !.fsm_state = PLAN,
              !.next_agent = "planner"]

\* PLAN -> EXECUTE
PlanReady(s) ==
    [s EXCEPT !.events = log(s, "plan_ready", None),
              !.fsm_state = EXECUTE,
              !.current_step = s.plan[s.current_step_index + 1],
              !.next_agent = "executor"]

\* EXECUTE -> CRITIQUE
Executing(s) ==
    [s EXCEPT !.events = log(s, "executing", s.current_step),
              !.fsm_state = CRITIQUE,
              !.next_agent = "critic"]

\* CRITIQUE -> ADVANCE (the returned dict names no next_agent)
Approved(s) ==
    [s EXCEPT !.events = log(s, "approved", None),
              !.fsm_state = ADVANCE]

\* mutant: the fallback also offers the current execution_result
Unexpected_UsesResult(s, fsm_state) ==
    [s EXCEPT !.events = log(s, "unexpected_state", fsm_state),
              !.fsm_state = FAIL,
              !.next_agent = "end",
              !.final_output = Or3(s.last_executor_output, s.execution_result,
                                   UnexpectedFallback)]

\* the fallback for a tag outside the FSM
Unexpected(s, fsm_state) ==
    [s EXCEPT !.events = log(s, "unexpected_state", fsm_state),
              !.fsm_state = FAIL,
              !.next_agent = "end",
              !.final_output = Or2(s.last_executor_output, UnexpectedFallback)]

\* supervisor_node: the state with the returned dict merged into it
supervisor_node(s) ==
    IF RetryLimitReached(s.retry_count) THEN RetryGuard(s)
    ELSE LET fsm_state == Corrected(s) IN
         CASE fsm_state = START -> Start(s)
           [] fsm_state = PLAN -> PlanReady(s)
           [] fsm_state = EXECUTE -> Executing(s)
           [] fsm_state = CRITIQUE ->
                IF s.is_approved = True THEN Approved(s) ELSE Rejected(s)
           [] fsm_state = ADVANCE -> Advance(s)
           [] OTHER -> Unexpected(s, fsm_state)

----------------------------------------------------------------------------
(* Performers *)

DefaultPlan == <<"Produce a final, complete answer to the task">>

RECURSIVE NonBlankStripped(_)
\* [str(step).strip() for step in plan if str(step).strip()]
NonBlankStripped(raw) ==
    IF raw = <<>> THEN <<>>
    ELSE IF Strip(Head(raw)) = "" THEN NonBlankStripped(Tail(raw))
         ELSE <<Strip(Head(raw))>> \o NonBlankStripped(Tail(raw))

\* mutant: no cap on the number of steps
Cap4_NoCap(plan) == plan

\* plan[:4]
Cap4(plan) == SubSeq(plan, 1, IF Len(plan) < 4 THEN Len(plan) ELSE 4)

\* the planner's safety guards on the parsed step list
PlanGuards(raw) ==
    LET plan == Cap4(NonBlankStripped(raw)) IN
    IF plan = <<>> THEN DefaultPlan ELSE plan

\* what the planner model's reply can be: text holding a bracketed list that
\* ast.literal_eval reads ("list", items are str() of the list's elements),
\* text holding a "[" that literal_eval or rindex("]") rejects ("malformed",
\* items are the text's lines), text without "[" ("lines", items are its lines)
ReplyKinds == {"list", "malformed", "lines"}

\* [line.strip() for line in plan_str.split("\n") if line.strip()]
LineSplit(lines) == NonBlankStripped(lines)

\* the PARSE PLAN block: the step list handed to the safety guards
ParsePlan(r) ==
    IF r.kind = "list" THEN r.items ELSE LineSplit(r.items)

\* mutant: the planner starts the cursor at 1
planner_node_OneBased(s, raw) ==
    LET plan == PlanGuards(raw) IN
    [s EXCEPT !.plan = plan,
              !.current_step = plan[1],
              !.current_step_index = 1,
              !.fsm_state = EXECUTE,
              !.execution_history = <<>>,
              !.execution_result = None,
              !.last_executor_output = None,
              !.critique = None,
              !.is_approved = None,
              !.retry_count = 0]

\* planner_node: the state with the returned dict merged into it
planner_node(s, raw) ==
    LET plan == PlanGuards(raw) IN
    [s EXCEPT !.plan = plan,
              !.current_step = plan[1],
              !.current_step_index = 0,
              !.fsm_state = EXECUTE,
              !.execution_history = <<>>,
              !.execution_result = None,
              !.last_executor_output = None,
              !.critique = None,
              !.is_approved = None,
              !.retry_count = 0]

\* ExecutionOutput's validators: word_count > 0 and content not blank
ExecutionOutputValid(content, word_count) ==
    /\ word_count > 0
    /\ Strip(content) # ""

\* mutant: a validation failure also forgets the last good output
executor_node_FailClearsLast(s, content, word_count) ==
    IF ~(word_count > 0 /\ Strip(content) # "")
    THEN [s EXCEPT !.execution_result = None,
                   !.last_executor_output = None,
                   !.fsm_state = EXECUTE]
    ELSE [s EXCEPT !.execution_result = content,
                   !.last_executor_output = content,
                   !.execution_history = Append(s.execution_history, content),
                   !.fsm_state = CRITIQUE]

\* mutant: the executor publishes its content as the run's final_output
executor_node_WritesFinal(s, content, word_count) ==
    [s EXCEPT !.execution_result = content,
              !.last_executor_output = content,
              !.final_output = content,
              !.fsm_state = CRITIQUE]

\* mutant: a successful invocation keeps only its own content in the history
executor_node_HistoryReplaced(s, content, word_count) ==
    IF ~(word_count > 0 /\ Strip(content) # "")
    THEN [s EXCEPT !.execution_result = None,
                   !.fsm_state = EXECUTE]
    ELSE [s EXCEPT !.execution_result = content,
                   !.last_executor_output = content,
                   !.execution_history = <<content>>,
                   !.fsm_state = CRITIQUE]

\* executor_node: the state with the returned dict merged into it
\* ("schema_error" is no key of AgentState and is dropped by the graph)
executor_node(s, content, word_count) ==
    IF ~ExecutionOutputValid(content, word_count)
    THEN [s EXCEPT !.execution_result = None,
                   !.fsm_state = EXECUTE]
    ELSE [s EXCEPT !.execution_result = content,
                   !.last_executor_output = content,
                   !.execution_history = Append(s.execution_history, content),
                   !.fsm_state = CRITIQUE]

\* mutant: the critic's guard only recognises the empty string
CriticGuard_OnlyEmptyString(s) == s.execution_result = ""

CriticGuardMessage == "Executor produced no output for this step."

\* the critic's deterministic guard: no result, or a blank one
CriticGuard(s) == ~Truthy(s.execution_result) \/ Strip(s.execution_result) = ""

\* critic_node: the state with the returned dict merged into it
critic_node(s, approved, feedback) ==
    IF CriticGuard(s)
    THEN [s EXCEPT !.critique = CriticGuardMessage,
                   !.is_approved = False]
    ELSE [s EXCEPT !.critique = feedback,
                   !.is_approved = approved]

----------------------------------------------------------------------------
(* Routing graph *)

\* langgraph's default recursion limit: graph.invoke raises when it is used up
RECURSION_LIMIT == 25

\* mutant: the conditional edge's mapping lacks the "end" entry
Route_NoEndEdge(next_agent, t) ==
    IF next_agent \notin {"planner", "executor", "critic", "supervisor"} THEN "error"
    ELSE IF t >= RECURSION_LIMIT THEN "recursion_error"
    ELSE next_agent

\* the conditional edge out of the supervisor, and the ceiling on supersteps
Route(next_agent, t) ==
    IF next_agent = "end" THEN "END"
    ELSE IF next_agent \notin {"planner", "executor", "critic", "supervisor"} THEN "error"
    ELSE IF t >= RECURSION_LIMIT THEN "recursion_error"
    ELSE next_agent

\* the fixed edge from a performer back to the supervisor
BackToSupervisor(t) == IF t >= RECURSION_LIMIT THEN "recursion_error" ELSE "supervisor"

\* initial_state of /run
InitialState(goal) ==
    [user_goal |-> goal,
     plan |-> <<>>,
     current_step |-> None,
     current_step_index |-> 0,
     execution_history |-> <<>>,
     execution_result |-> None,
     last_executor_output |-> None,
     critique |-> None,
     is_approved |-> None,
     fsm_state |-> None,
     retry_count |-> 0,
     next_agent |-> None,
     final_output |-> None,
     events |-> <<>>]

\* no reply is being handled
NoReply == [kind |-> "none", items |-> <<>>]

\* the store holds no document for the request yet
NoSession == [exists |-> FALSE, title |-> None, messages |-> <<>>, updated_at |-> None]

\* the request has not been answered
Pending == [status |-> 0, detail |-> None, final_output |-> None, events |-> <<>>]

\* len(request.user_goal) for the goals of the model
GoalLength(goal) == 4

\* the title run_agent gives the session: the goal, cut to 50 characters and
\* "..." when it is longer
Title(goal) ==
    IF GoalLength(goal) > 50 THEN <<"first 50 characters of", goal, "...">> ELSE goal

\* SessionService.create_session: a new document with that title and no
\* messages; updated_at is the time of the write, counted in writes
create_session(title) ==
    [exists |-> TRUE, title |-> title, messages |-> <<>>, updated_at |-> 0]

\* ids a session request can name: the run's session, which the store holds
\* until a DELETE removes it
OwnId == "sid"
SessionIds == {OwnId}

\* titles a PATCH request can carry
Titles == {"renamed"}

\* no PATCH request has been answered
NoPatch == [status |-> 0, detail |-> None, session_id |-> None, title |-> None]

\* the Message add_message builds (its timestamp is the document's updated_at)
Message(role, content, metadata) ==
    [role |-> role, content |-> content, metadata |-> metadata]

\* the metadata run_agent attaches to the assistant message
Metadata(result) ==
    [events |-> result.events,
     plan |-> result.plan,
     execution_history |-> result.execution_history]

\* mutant: the message is pushed and updated_at left as it was
add_message_KeepsTimestamp(doc, role, content, metadata) ==
    IF doc.exists
    THEN [doc EXCEPT !.messages = Append(@, Message(role, content, metadata))]
    ELSE doc

\* SessionService.add_message: one update_one that pushes the message and
\* sets updated_at on the document with that id; an update that matches no
\* document changes nothing. The call returns str(oid) either way.
add_message(doc, role, content, metadata) ==
    IF doc.exists
    THEN [doc EXCEPT !.messages = Append(@, Message(role, content, metadata)),
                     !.updated_at = @ + 1]
    ELSE doc

\* SessionService.delete_session: delete_one on the document with that id
delete_one(doc) == NoSession

\* mutant: every request's initial_state refers to one module-level list
NewList_Shared(r) == 1

\* the requests of the side-by-side runs, and the list each initial_state's
\* `"events": []` creates: a new object per request
RunIds == {1, 2}
NewList(r) == r

\* the side-by-side runs are not used: both are at rest
IdleRuns == [r \in RunIds |-> [state |-> None, node |-> "idle", ticks |-> 0]]
EmptyHeap == [ref \in RunIds |-> <<>>]

Init ==
    /\ \E goal \in Goals : state = InitialState(goal)
    /\ node = "create_session"
    /\ ticks = 0
    /\ exec_log = <<>>
    /\ critic_llm_calls = 0
    /\ approves \in SUBSET {c \in RawContents : Strip(c) # ""}
    /\ reply = NoReply
    /\ session = NoSession
    /\ http = Pending
    /\ patch = NoPatch
    /\ runs = IdleRuns
    /\ heap = EmptyHeap

Supervisor ==
    /\ node = "supervisor"
    /\ ticks' = ticks + 1
    /\ IF SupervisorRaises(state)
       THEN node' = "error" /\ state' = state
       ELSE /\ state' = supervisor_node(state)
            /\ node' = Route(state'.next_agent, ticks')
    /\ reply' = NoReply
    /\ UNCHANGED <<exec_log, critic_llm_calls, approves, session, http>>
    /\ UNCHANGED <<patch, runs, heap>>

Planner ==
    /\ node = "planner"
    /\ ticks' = ticks + 1
    /\ \E kind \in ReplyKinds, n \in 0..MaxRawPlan : \E raw \in [1..n -> RawSteps] :
          \* the line holding the "[" of a malformed list is not blank
          /\ kind = "malformed" => \E i \in 1..n : Strip(raw[i]) # ""
          /\ reply' = [kind |-> kind, items |-> raw]
          /\ state' = planner_node(state, ParsePlan(reply'))
    /\ node' = BackToSupervisor(ticks')
    /\ UNCHANGED <<exec_log, critic_llm_calls, approves, session, http>>
    /\ UNCHANGED <<patch, runs, heap>>

Executor ==
    /\ node = "executor"
    /\ ticks' = ticks + 1
    /\ \E content \in RawContents, word_count \in RawWordCounts :
          /\ state' = executor_node(state, content, word_count)
          /\ exec_log' = Append(exec_log,
                 <<state.current_step_index,
                   IF ExecutionOutputValid(content, word_count) THEN content ELSE None>>)
    /\ node' = BackToSupervisor(ticks')
    /\ UNCHANGED <<critic_llm_calls, approves, reply, session, http>>
    /\ UNCHANGED <<patch, runs, heap>>

Critic ==
    /\ node = "critic"
    /\ ticks' = ticks + 1
    /\ state' = critic_node(state,
                            IF state.execution_result \in approves THEN True ELSE False,
                            "feedback")
    /\ critic_llm_calls' = IF CriticGuard(state) THEN critic_llm_calls
                           ELSE critic_llm_calls + 1
    /\ node' = BackToSupervisor(ticks')
    /\ UNCHANGED <<exec_log, approves, reply, session, http>>
    /\ UNCHANGED <<patch, runs, heap>>

\* mutant: a performer's exception is charged to the retry budget
PerformerRaises_CountsRetry ==
    /\ node \in {"planner", "executor", "critic"}
    /\ ticks' = ticks + 1
    /\ node' = "outage"
    /\ state' = [state EXCEPT !.retry_count = @ + 1]
    /\ UNCHANGED <<exec_log, critic_llm_calls, approves, reply, session, http>>
    /\ UNCHANGED <<patch, runs, heap>>

\* the call under a performer raises (no key, no network, a provider error):
\* nothing in the graph catches it, the node returns no patch and invoke raises
PerformerRaises ==
    /\ node \in {"planner", "executor", "critic"}
    /\ ticks' = ticks + 1
    /\ node' = "outage"
    /\ UNCHANGED <<state, exec_log, critic_llm_calls, approves, reply, session, http>>
    /\ UNCHANGED <<patch, runs, heap>>

\* run_agent up to the session it creates for the request
RunCreateSession ==
    /\ node = "create_session"
    /\ session' = create_session(Title(state.user_goal))
    /\ node' = "add_user_message"
    /\ UNCHANGED <<state, ticks, exec_log, critic_llm_calls, approves, reply, http>>
    /\ UNCHANGED <<patch, runs, heap>>

\* run_agent saves the user's goal, builds the initial state and invokes the graph
RunSaveUserMessage ==
    /\ node = "add_user_message"
    /\ session' = add_message(session, "user", state.user_goal, None)
    /\ node' = "supervisor"
    /\ UNCHANGED <<state, ticks, exec_log, critic_llm_calls, approves, reply, http>>
    /\ UNCHANGED <<patch, runs, heap>>

\* mutant: run_agent saves the assistant message before it looks at final_output
RunFinish_SavesFirst ==
    /\ node \in {"END", "error", "outage", "recursion_error"}
    /\ node' = "done"
    /\ IF node # "END"
       THEN /\ http' = [status |-> 500, detail |-> "Agent execution failed",
                        final_output |-> None, events |-> <<>>]
            /\ session' = session
       ELSE /\ session' = add_message(session, "assistant", state.final_output,
                                         Metadata(state))
            /\ http' = IF ~Truthy(state.final_output)
                       THEN [status |-> 500, detail |-> "Agent execution produced no output",
                             final_output |-> None, events |-> <<>>]
                       ELSE [status |-> 200, detail |-> None,
                             final_output |-> state.final_output, events |-> state.events]
    /\ UNCHANGED <<state, ticks, exec_log, critic_llm_calls, approves, reply>>
    /\ UNCHANGED <<patch, runs, heap>>

\* run_agent after graph.invoke: an exception of the graph and an empty
\* final_output answer 500 before anything is saved; otherwise the assistant
\* message is saved and the output returned
RunFinish ==
    /\ node \in {"END", "error", "outage", "recursion_error"}
    /\ node' = "done"
    /\ IF node # "END"
       THEN /\ http' = [status |-> 500, detail |-> "Agent execution failed",
                        final_output |-> None, events |-> <<>>]
            /\ session' = session
       ELSE IF ~Truthy(state.final_output)
       THEN /\ http' = [status |-> 500, detail |-> "Agent execution produced no output",
                        final_output |-> None, events |-> <<>>]
            /\ session' = session
       ELSE /\ session' = add_message(session, "assistant", state.final_output,
                                         Metadata(state))
            /\ http' = [status |-> 200, detail |-> None,
                        final_output |-> state.final_output, events |-> state.events]
    /\ UNCHANGED <<state, ticks, exec_log, critic_llm_calls, approves, reply>>
    /\ UNCHANGED <<patch, runs, heap>>

\* PATCH /sessions/{id}, made by a client that has the /run response:
\* the handler calls session_service.update_session, which SessionService does
\* not define; the AttributeError is caught by `except Exception`
update_session ==
    /\ node = "done"
    /\ patch = NoPatch
    /\ \E session_id \in SessionIds, title \in Titles :
          patch' = [status |-> 500, detail |-> "Failed to update session",
                    session_id |-> session_id, title |-> title]
    /\ UNCHANGED <<state, node, ticks, exec_log, critic_llm_calls, approves, reply,
                   session, http, runs, heap>>

\* DELETE /sessions/{id} for the run's session, sent by another client while
\* the run is in progress. The graph never touches the store, so for the
\* store it is the same whenever during graph.invoke the delete arrives: it
\* is taken when the graph has ended, before run_agent saves the answer.
delete_session ==
    /\ node = "END"
    /\ session.exists
    /\ session' = delete_one(session)
    /\ UNCHANGED <<state, node, ticks, exec_log, critic_llm_calls, approves, reply,
                   http, patch, runs, heap>>

Next ==
    \/ RunCreateSession
    \/ RunSaveUserMessage
    \/ Supervisor
    \/ Planner
    \/ Executor
    \/ Critic
    \/ PerformerRaises
    \/ RunFinish
    \/ update_session
    \/ delete_session

Spec == Init /\ [][Next]_vars

\* Task States the Supervisor can be handed: before planning the state is the
\* initial one; after planning the cursor is inside the plan
SupInputs ==
    { InitialState(goal) : goal \in Goals }
    \cup
    { [user_goal |-> goal,
       plan |-> plan,
       current_step |-> IF i < Len(plan) THEN plan[i + 1] ELSE None,
       current_step_index |-> i,
       execution_history |-> IF Truthy(last) THEN <<last>> ELSE <<>>,
       execution_result |-> result,
       last_executor_output |-> last,
       critique |-> IF verdict = None THEN None ELSE "feedback",
       is_approved |-> verdict,
       fsm_state |-> tag,
       retry_count |-> retries,
       next_agent |-> agent,
       final_output |-> None,
       events |-> <<>>] :
         goal \in Goals,
         plan \in SupPlans,
         i \in 0..1,
         result \in {None, "", " ", "x"},
         last \in {None, "", "y"},
         verdict \in {None, True, False},
         tag \in SupervisorState \cup {None, "paused"},
         retries \in 0..(MAX_RETRIES + 1),
         agent \in {None, "critic"} }

InitSup ==
    /\ state \in {s \in SupInputs : s.current_step_index < Len(s.plan) \/ s.plan = <<>>}
    /\ node = "create_session"
    /\ ticks = 0
    /\ exec_log = <<>>
    /\ critic_llm_calls = 0
    /\ approves \in SUBSET {c \in RawContents : Strip(c) # ""}
    /\ reply = NoReply
    /\ session = NoSession
    /\ http = Pending
    /\ patch = NoPatch
    /\ runs = IdleRuns
    /\ heap = EmptyHeap

----------------------------------------------------------------------------
(* Two /run requests side by side. Each request builds its own initial_state
   dict; graph.invoke threads it through the shared compiled graph. The one
   object a node mutates in place is the events list (events.append in log()),
   so the `events` key of a run holds a reference into the heap. *)

\* planner replies and executor contents of the side-by-side runs
PairReplies == {<<>>, <<"B">>}
PairContents == {"", "x"}

\* the Task State of request r in Task States rs over the list objects hp
ViewOf(rs, hp, r) == [rs[r].state EXCEPT !.events = hp[rs[r].state.events]]
PairView(r) == ViewOf(runs, heap, r)

\* request r's node returned `new` and the graph goes on with node `nxt`:
\* the appended list is the object the state already referred to
PairStep(r, new, nxt) ==
    LET ref == runs[r].state.events IN
    /\ heap' = [heap EXCEPT ![ref] = new.events]
    /\ runs' = [runs EXCEPT ![r] = [state |-> [new EXCEPT !.events = ref],
                                    node |-> nxt,
                                    ticks |-> runs[r].ticks + 1]]

\* the states node n can return on Task State s, whatever else is going on
AloneSuccessors(s, n) ==
    CASE n = "supervisor" -> {supervisor_node(s)}
      [] n = "planner" ->
            {planner_node(s, ParsePlan([kind |-> "list", items |-> raw])) :
                raw \in PairReplies}
      [] n = "executor" -> {executor_node(s, content, 1) : content \in PairContents}
      [] n = "critic" ->
            {critic_node(s, IF s.execution_result \in approves THEN True ELSE False,
                         "feedback")}
      [] OTHER -> {}

InitPair ==
    /\ \E goal \in Goals : state = InitialState(goal)
    /\ node = "create_session"
    /\ ticks = 0
    /\ exec_log = <<>>
    /\ critic_llm_calls = 0
    /\ approves = {}
    /\ reply = NoReply
    /\ session = NoSession
    /\ http = Pending
    /\ patch = NoPatch
    /\ runs = [r \in RunIds |->
                 [state |-> [state EXCEPT !.events = NewList(r)],
                  node |-> "supervisor",
                  ticks |-> 0]]
    /\ heap = EmptyHeap

PairSupervisor ==
    /\ \E r \in RunIds :
          /\ runs[r].node = "supervisor"
          /\ LET new == supervisor_node(PairView(r)) IN
               PairStep(r, new, Route(new.next_agent, runs[r].ticks + 1))
    /\ UNCHANGED <<state, node, ticks, exec_log, critic_llm_calls, approves, reply,
                   session, http, patch>>

PairPlanner ==
    /\ \E r \in RunIds, raw \in PairReplies :
          /\ runs[r].node = "planner"
          /\ PairStep(r, planner_node(PairView(r),
                                      ParsePlan([kind |-> "list", items |-> raw])),
                      BackToSupervisor(runs[r].ticks + 1))
    /\ UNCHANGED <<state, node, ticks, exec_log, critic_llm_calls, approves, reply,
                   session, http, patch>>

PairExecutor ==
    /\ \E r \in RunIds, content \in PairContents :
          /\ runs[r].node = "executor"
          /\ PairStep(r, executor_node(PairView(r), content, 1),
                      BackToSupervisor(runs[r].ticks + 1))
    /\ UNCHANGED <<state, node, ticks, exec_log, critic_llm_calls, approves, reply,
                   session, http, patch>>

PairCritic ==
    /\ \E r \in RunIds :
          /\ runs[r].node = "critic"
          /\ LET s == PairView(r) IN
               PairStep(r, critic_node(s, IF s.execution_result \in approves
                                          THEN True ELSE False, "feedback"),
                        BackToSupervisor(runs[r].ticks + 1))
    /\ UNCHANGED <<state, node, ticks, exec_log, critic_llm_calls, approves, reply,
                   session, http, patch>>

NextPair == PairSupervisor \/ PairPlanner \/ PairExecutor \/ PairCritic

\* two concurrent /run requests, their graph steps interleaved at any point
PairSpec == InitPair /\ [][NextPair]_vars

\* the Supervisor applied to any Task State, and the run that follows
SupSpec == InitSup /\ [][Next]_vars

\* graph.invoke runs the nodes to the end: a node that can run does run
FairSpec == Spec /\ WF_vars(Next)

----------------------------------------------------------------------------
(* Observations on a run *)

Terminal == node = "END"

LastEvent == state.events[Len(state.events)]

\* executor invocations made while the cursor was at step i
ExecCalls(i) == Cardinality({k \in DOMAIN exec_log : exec_log[k][1] = i})

\* executor invocations that returned content
Successes == {k \in DOMAIN exec_log : exec_log[k][2] # None}

Max(S) == CHOOSE m \in S : \A k \in S : k <= m
Min(S) == CHOOSE m \in S : \A k \in S : m <= k

\* the most recent content an executor invocation returned, None if there is none
LatestContent == IF Successes = {} THEN None ELSE exec_log[Max(Successes)][2]

\* invocations for step i, and those among them whose content the critic approves
CallsOf(i) == {k \in DOMAIN exec_log : exec_log[k][1] = i}
GoodOf(i) == {k \in CallsOf(i) : exec_log[k][2] \in approves}

\* the Supervisor is handed the state an executor invocation has just left
\* without a valid result (blank content or word_count 0 fail validation)
ExecutorJustFailed ==
    /\ node = "supervisor"
    /\ state.fsm_state = EXECUTE
    /\ state.execution_result = None
    /\ exec_log # <<>>
    /\ exec_log[Len(exec_log)][2] = None

\* a result that is missing, empty or whitespace-only
NoOutput(result) == result \in {None, "", " "}

\* the Supervisor is handed the state the critic's guard has just rejected
CriticJustAutoRejected ==
    /\ node = "supervisor"
    /\ state.fsm_state = CRITIQUE
    /\ NoOutput(state.execution_result)
    /\ state.critique = CriticGuardMessage
    /\ state.is_approved = False

\* the critic, when it returns, rejects an empty result with the fixed feedback
\* and without reaching its language model
CriticAutoRejects ==
    (node = "critic" /\ node' # "outage" /\ NoOutput(state.execution_result))
    => /\ state'.is_approved = False
       /\ state'.critique = CriticGuardMessage
       /\ critic_llm_calls' = critic_llm_calls

\* the Supervisor counts the critic's automatic rejection as one retry of the same step
AutoRejectionCounted ==
    CriticJustAutoRejected
    => /\ state'.retry_count = state.retry_count + 1
       /\ state'.current_step_index = state.current_step_index
       /\ node' = "executor"

\* this step is an executor invocation whose structured output failed validation
ExecutorFails ==
    /\ node = "executor"
    /\ Len(exec_log') = Len(exec_log) + 1
    /\ exec_log'[Len(exec_log')][2] = None

\* this step leaves the outputs kept so far and the cursor as they are
KeepsOutputsAndStep ==
    /\ state'.execution_history = state.execution_history
    /\ state'.last_executor_output = state.last_executor_output
    /\ state'.current_step_index = state.current_step_index

\* the session document holds no assistant message
NoAssistantMessage(doc) ==
    \A i \in DOMAIN doc.messages : doc.messages[i].role # "assistant"

\* the Supervisor is handed the state the planner has just returned
PlannerJustReturned ==
    /\ node = "supervisor"
    /\ reply.kind # "none"

\* the Supervisor is handed the state an executor invocation has just left
\* with a valid result
ExecutorJustSucceeded ==
    /\ node = "supervisor"
    /\ exec_log # <<>>
    /\ exec_log[Len(exec_log)][2] # None
    /\ state.execution_result = exec_log[Len(exec_log)][2]

\* the Supervisor runs next, inside the retry budget, on the (corrected) tag
SupervisorIn(tag) ==
    /\ node = "supervisor"
    /\ state.retry_count < MAX_RETRIES
    /\ Corrected(state) = tag

\* the outputs of the Task State are as the executor leaves them: an
\* execution_result, when there is one, is validated content and is the last
\* output, and the last output is never blank
OutputsAsExecutorLeavesThem(s) ==
    /\ s.execution_result # None =>
          /\ Strip(s.execution_result) # ""
          /\ s.last_executor_output = s.execution_result
    /\ s.last_executor_output # None => Strip(s.last_executor_output) # ""

----------------------------------------------------------------------------
(* Claims *)

\* C1: from the initial Task State, whatever the planner, the executor and the
\* critic return (a run in which a performer raises instead of returning is
\* outside the claim), the run eventually reaches the terminal directive 'end'
\* with fsm_state COMPLETE or FAIL.
C1_RunTerminates ==
    \/ <>(Terminal /\ state.next_agent = "end" /\ state.fsm_state \in {COMPLETE, FAIL})
    \/ <>(node = "outage")

\* a finished run that saw a validation failure and a successful execution
C1_Witness ==
    /\ Terminal
    /\ state.fsm_state = COMPLETE
    /\ Successes # {}
    /\ Successes # DOMAIN exec_log

\* C2: when every executor invocation returns content and, for each step, the
\* critic's approval comes after k < MAX_RETRIES rejections, the finished run has
\* invoked the executor exactly k+1 times for each step of the plan (the approved
\* output is the step's last), has fsm_state COMPLETE, and final_output is the
\* last output of the last step.
C2_ApprovalAdvancesEveryStep ==
    (/\ Terminal
     /\ Successes = DOMAIN exec_log
     /\ \A i \in 0..(Len(state.plan) - 1) :
           CallsOf(i) # {} =>
              /\ GoodOf(i) # {}
              /\ Cardinality({k \in CallsOf(i) : k < Min(GoodOf(i))}) < MAX_RETRIES)
    =>
    (/\ state.fsm_state = COMPLETE
     /\ \A i \in 0..(Len(state.plan) - 1) :
           /\ CallsOf(i) # {}
           /\ GoodOf(i) = {Max(CallsOf(i))}
     /\ exec_log[Len(exec_log)][1] = Len(state.plan) - 1
     /\ state.final_output = exec_log[Len(exec_log)][2])

\* C3: final_output is set if and only if fsm_state is COMPLETE or FAIL.
C3_FinalOutputIffTerminalTag ==
    (state.final_output # None) <=> (FsmOf(state) \in {COMPLETE, FAIL})

\* a run ended by the retry guard, with its final output
C3_Witness ==
    /\ FsmOf(state) = COMPLETE
    /\ state.final_output \in {"x", "y"}

\* C4: the Supervisor invoked with retry_count >= MAX_RETRIES, whatever the
\* fsm_state, returns COMPLETE, the terminal directive, and final_output =
\* last_executor_output if non-empty, else execution_result if non-empty, else
\* the fixed message; it logs the one guard event and changes nothing else.
C4_PriorityGuard ==
    [][(node = "supervisor" /\ state.retry_count >= MAX_RETRIES) =>
          /\ node' = "END"
          /\ state' = [state EXCEPT
                !.fsm_state = COMPLETE,
                !.next_agent = "end",
                !.final_output =
                    IF state.last_executor_output \notin {None, ""}
                    THEN state.last_executor_output
                    ELSE IF state.execution_result \notin {None, ""}
                         THEN state.execution_result
                         ELSE RetryFallback,
                !.events = Append(state.events,
                    [agent |-> "supervisor", action |-> "retry_limit_reached",
                     detail |-> "Forcing graceful completion",
                     step_index |-> state.current_step_index])]]_vars

\* the guard has fired on a state with no last output and returned the pending result
C4_Witness ==
    /\ Terminal
    /\ Len(state.events) = 1
    /\ LastEvent.action = "retry_limit_reached"
    /\ state.retry_count = MAX_RETRIES
    /\ state.last_executor_output = None
    /\ state.final_output = "x"

\* C5: a run that ends with the retry budget exhausted ends COMPLETE, not FAIL,
\* has executed no step after the one that exhausted it, and its final_output
\* is the most recent executor output (the fixed message if there is none).
C5_ExhaustedBudgetCompletes ==
    (Terminal /\ state.retry_count >= MAX_RETRIES) =>
        /\ state.fsm_state = COMPLETE
        /\ \A k \in DOMAIN exec_log : exec_log[k][1] <= state.current_step_index
        /\ state.final_output =
               IF LatestContent = None THEN RetryFallback ELSE LatestContent

\* step 1 of a 2-step plan used up the budget under a critic that approves nothing
C5_Witness ==
    /\ Terminal
    /\ approves = {}
    /\ Len(state.plan) = 2
    /\ state.current_step_index = 0
    /\ state.retry_count = MAX_RETRIES
    /\ state.fsm_state = COMPLETE
    /\ state.final_output = "y"
    /\ ExecCalls(1) = 0

\* C6: the executor is invoked at most MAX_RETRIES + 1 times for one step.
C6_ExecutorCallsPerStep ==
    \A i \in 0..3 : ExecCalls(i) <= MAX_RETRIES + 1

\* a finished run whose step was executed again after each counted rejection
C6_Witness ==
    /\ Terminal
    /\ ExecCalls(0) = MAX_RETRIES

\* C7: 0 <= retry_count <= MAX_RETRIES.
C7_RetryCountBounded ==
    state.retry_count \in 0..MAX_RETRIES

\* the budget is used up
C7_Witness ==
    /\ state.retry_count = MAX_RETRIES
    /\ node = "executor"

\* C8: retry_count grows only by 1, only in a Supervisor transition out of
\* CRITIQUE, and only when the critic has set is_approved to false.
C8_RetryOnlyOnCriticRejection ==
    [][state'.retry_count > state.retry_count =>
          /\ node = "supervisor"
          /\ FsmOf(state) = CRITIQUE
          /\ state.is_approved = False
          /\ state'.retry_count = state.retry_count + 1]_vars

\* C9: retry_count goes back to 0 exactly in the transitions that change
\* current_step_index; in every other transition it stays or grows.
C9_RetryResetIffStepChanges ==
    [][/\ state'.current_step_index # state.current_step_index
            => state'.retry_count = 0
       /\ state'.retry_count < state.retry_count
            => state'.current_step_index # state.current_step_index]_vars

\* the Supervisor has advanced to the second step and the retries are back at 0
C9_Witness ==
    /\ node = "executor"
    /\ state.events # <<>>
    /\ LastEvent.action = "advance_step"
    /\ state.current_step_index = 1
    /\ state.retry_count = 0

\* C10: current_step_index never decreases, and once the plan is set
\* (fsm_state EXECUTE, CRITIQUE, ADVANCE, COMPLETE or FAIL) the plan is
\* non-empty and 0 <= current_step_index < len(plan).
C10_StepIndexInPlan ==
    /\ [](FsmOf(state) \in {EXECUTE, CRITIQUE, ADVANCE, COMPLETE, FAIL} =>
             /\ state.plan # <<>>
             /\ state.current_step_index \in 0..(Len(state.plan) - 1))
    /\ [][state'.current_step_index >= state.current_step_index]_vars

\* the cursor has moved to the last step of a planned run
C10_Witness ==
    /\ state.plan = <<"A", "B">>
    /\ state.current_step_index = 1
    /\ FsmOf(state) = EXECUTE
    /\ state.events # <<>>
    /\ LastEvent.action = "advance_step"

\* C11: the events log is append-only: across every step of a run (Supervisor,
\* performer or handler) the previous events sequence is a prefix of the new one.
C11_EventsAppendOnly ==
    [][/\ Len(state'.events) >= Len(state.events)
       /\ SubSeq(state'.events, 1, Len(state.events)) = state.events]_vars

\* a finished run whose log grew over several Supervisor steps
C11_Witness ==
    /\ Terminal
    /\ Len(state.events) >= 4

\* C16: final_output is written at most once in a run, only by a Supervisor
\* step that moves to COMPLETE or FAIL, and no later step (Supervisor,
\* performer or handler) overwrites it.
C16_FinalOutputSetOnce ==
    [][/\ state'.final_output # state.final_output =>
            /\ node = "supervisor"
            /\ state.final_output = None
            /\ state'.fsm_state \in {COMPLETE, FAIL}
            /\ node' = "END"
       /\ state.final_output # None => state'.final_output = state.final_output]_vars

\* the request answered with the final_output that an unrecognised tag's FAIL set
C16_Witness ==
    /\ node = "done"
    /\ state.fsm_state = FAIL
    /\ state.final_output = UnexpectedFallback
    /\ http.final_output = state.final_output

\* C17: a Supervisor step taken with a tag outside the seven known values and
\* retry_count < MAX_RETRIES returns FAIL with the terminal directive, and
\* final_output is last_output when that is non-empty, the fixed
\* partial-output message otherwise.
C17_UnknownTagFails ==
    [][(/\ node = "supervisor"
        /\ FsmOf(state) \notin SupervisorState
        /\ state.retry_count < MAX_RETRIES)
       => /\ state'.fsm_state = FAIL
          /\ state'.next_agent = "end"
          /\ node' = "END"
          /\ state'.final_output =
                IF Truthy(state.last_executor_output)
                THEN state.last_executor_output
                ELSE UnexpectedFallback]_vars

\* a run ended by the tag "paused" while an executor output was at hand
C17_Witness ==
    /\ Terminal
    /\ state.fsm_state = FAIL
    /\ state.events # <<>>
    /\ LastEvent.action = "unexpected_state"
    /\ LastEvent.detail = "paused"
    /\ state.final_output = "y"

\* C13 as stated: whenever the executor leaves an empty result for a step, the
\* critic is the next performer and rejects it with the fixed feedback without
\* reaching its language model, and the Supervisor then adds exactly 1 to
\* retry_count and leaves step_index unchanged.
C13_Original ==
    [][/\ ExecutorJustFailed => node' = "critic"
       /\ CriticAutoRejects
       /\ AutoRejectionCounted]_vars

\* C13 amended: the same while retry_count < MAX_RETRIES; an empty result left
\* by the attempt made at retry_count = MAX_RETRIES meets the retry guard, which
\* ends the run with COMPLETE before the critic runs and counts nothing.
C13_EmptyResultAutoRejected ==
    [][/\ (ExecutorJustFailed /\ state.retry_count < MAX_RETRIES) => node' = "critic"
       /\ (ExecutorJustFailed /\ state.retry_count >= MAX_RETRIES)
            => /\ node' = "END"
               /\ state'.fsm_state = COMPLETE
               /\ state'.retry_count = state.retry_count
               /\ critic_llm_calls' = critic_llm_calls
       /\ CriticAutoRejects
       /\ AutoRejectionCounted]_vars

\* an executor attempt failed, the critic's guard rejected it without the
\* language model, and the Supervisor has counted it and dispatched the retry
C13_Witness ==
    /\ node = "executor"
    /\ exec_log # <<>>
    /\ exec_log[Len(exec_log)][2] = None
    /\ LastEvent.action = "rejected"
    /\ LastEvent.detail = CriticGuardMessage
    /\ state.retry_count = 2
    /\ critic_llm_calls = 0

\* C14 as stated: a validation failure in the executor raises nothing (the
\* Supervisor runs next), leaves execution_history, last_output and step_index
\* unchanged, and every failed attempt is then counted: the steps that follow
\* it add exactly 1 to retry_count and dispatch the executor on the same step.
C14_Original ==
    [][/\ ExecutorFails
            => node' = "supervisor" /\ KeepsOutputsAndStep
                 /\ state'.retry_count = state.retry_count
       /\ ExecutorJustFailed
            => node' = "critic" /\ KeepsOutputsAndStep
                 /\ state'.retry_count = state.retry_count
       /\ (node = "critic" /\ NoOutput(state.execution_result))
            => KeepsOutputsAndStep /\ state'.retry_count = state.retry_count
       /\ CriticJustAutoRejected
            => node' = "executor" /\ KeepsOutputsAndStep
                 /\ state'.retry_count = state.retry_count + 1]_vars

\* C14 amended: the same for a failed attempt made with retry_count <
\* MAX_RETRIES; the failure of the attempt made at retry_count = MAX_RETRIES
\* is absorbed too, but by the retry guard: the run ends with COMPLETE, the
\* outputs and the cursor unchanged, and retry_count is not incremented.
C14_ValidationFailureAbsorbed ==
    [][/\ ExecutorFails
            => node' = "supervisor" /\ KeepsOutputsAndStep
                 /\ state'.retry_count = state.retry_count
       /\ (ExecutorJustFailed /\ state.retry_count < MAX_RETRIES)
            => node' = "critic" /\ KeepsOutputsAndStep
                 /\ state'.retry_count = state.retry_count
       /\ (ExecutorJustFailed /\ state.retry_count >= MAX_RETRIES)
            => node' = "END" /\ KeepsOutputsAndStep
                 /\ state'.fsm_state = COMPLETE
                 /\ state'.retry_count = state.retry_count
       /\ (node = "critic" /\ NoOutput(state.execution_result))
            => KeepsOutputsAndStep /\ state'.retry_count = state.retry_count
       /\ CriticJustAutoRejected
            => node' = "executor" /\ KeepsOutputsAndStep
                 /\ state'.retry_count = state.retry_count + 1]_vars

\* after one good output, a failed attempt has been counted and the executor
\* dispatched again, the good output still the last one
C14_Witness ==
    /\ node = "executor"
    /\ Len(exec_log) = 2
    /\ exec_log[1][2] = "x"
    /\ exec_log[2][2] = None
    /\ state.retry_count = 3
    /\ state.last_executor_output = "x"
    /\ state.execution_history = <<"x">>

\* C15: whatever the planner model replied (a list, a malformed list, plain
\* lines, an empty list or empty text), the planner returns without raising
\* a plan of 1 to 4 entries, each a non-empty trimmed string, with
\* current_step_index 0 and current_step = plan[0]; when the reply holds no
\* usable entry the plan is exactly the default one-step plan.
C15_PlannerAlwaysYieldsPlan ==
    reply.kind # "none" =>
        /\ node = "supervisor"
        /\ Len(state.plan) \in 1..4
        /\ \A i \in DOMAIN state.plan :
              state.plan[i] # "" /\ Strip(state.plan[i]) = state.plan[i]
        /\ state.current_step_index = 0
        /\ state.current_step = state.plan[1]
        /\ (\A i \in DOMAIN reply.items : Strip(reply.items[i]) = "")
              => state.plan = DefaultPlan

\* the planner has answered an empty list with the default plan
C15_Witness ==
    /\ reply.kind = "list"
    /\ reply.items = <<>>
    /\ state.plan = DefaultPlan
    /\ state.current_step = DefaultPlan[1]
    /\ node = "supervisor"

\* C18: the iteration ceiling never surfaces as an exception: a run that has
\* used up the ceiling's ticks is stopped in a terminal state (FAIL with the
\* output at hand), it does not raise.
C18_CeilingForcesFail ==
    ticks >= RECURSION_LIMIT => node # "recursion_error"

\* C19: the /run request is answered with success only after a run that ended
\* with a non-empty final_output, and then with that final_output and the
\* run's events; a run that ended with a missing or empty final_output is
\* answered 500 and no assistant message is saved.
C19_SuccessOnlyWithOutput ==
    [][/\ (http'.status = 200 /\ http.status # 200)
            => /\ node = "END"
               /\ Truthy(state.final_output)
               /\ http'.final_output = state.final_output
               /\ http'.events = state.events
       /\ (node = "END" /\ node' = "done" /\ ~Truthy(state.final_output))
            => /\ http'.status = 500
               /\ session' = session
               /\ NoAssistantMessage(session')]_vars

\* a run that reached END without any output has been answered 500, the
\* session holding the user's message only
C19_Witness ==
    /\ node = "done"
    /\ state.next_agent = "end"
    /\ ~Truthy(state.final_output)
    /\ http.status = 500
    /\ http.detail = "Agent execution produced no output"
    /\ session.messages = <<Message("user", state.user_goal, None)>>

\* C20: when a performer's underlying call raises, the node returns no patch
\* (retry_count and the rest of the Task State stay as they were), no node
\* runs after it, the request is answered 500 and the session gets no
\* assistant message.
C20_PerformerOutageAborts ==
    [][/\ (node \in {"planner", "executor", "critic"} /\ node' = "outage")
            => /\ state' = state
               /\ UNCHANGED <<session, http, exec_log, critic_llm_calls>>
       /\ node = "outage"
            => /\ node' = "done"
               /\ http'.status = 500
               /\ state' = state
               /\ ticks' = ticks
               /\ session' = session
               /\ NoAssistantMessage(session')]_vars

\* the executor's call raised on the second retry: the request has failed with
\* the retry count where it was and only the user's message in the session
C20_Witness ==
    /\ node = "done"
    /\ http.status = 500
    /\ http.detail = "Agent execution failed"
    /\ state.next_agent = "executor"
    /\ state.retry_count = 2
    /\ Len(exec_log) = 1
    /\ session.messages = <<Message("user", state.user_goal, None)>>

\* C23: the Supervisor step that follows the planner's return issues the
\* directive executor with fsm_state EXECUTE and current_step = plan[0], so
\* the first performer after the planner is the executor.
C23_ExecutorFollowsPlanner ==
    [][PlannerJustReturned
       => /\ node' = "executor"
          /\ state'.next_agent = "executor"
          /\ state'.fsm_state = EXECUTE
          /\ state'.current_step = state.plan[1]]_vars

\* C24: the Supervisor step that follows an executor invocation which
\* returned a result (the retry budget not used up) moves to CRITIQUE with
\* the directive critic, execution_result still holding that result, so the
\* critic runs on it before any verdict and before any further executor call.
C24_CriticFollowsExecutor ==
    [][(ExecutorJustSucceeded /\ state.retry_count < MAX_RETRIES)
       => /\ node' = "critic"
          /\ state'.next_agent = "critic"
          /\ state'.fsm_state = CRITIQUE
          /\ state'.execution_result = state.execution_result
          /\ state'.retry_count = state.retry_count]_vars

\* C25: a Supervisor step taken with tag START, a non-empty plan and
\* retry_count < MAX_RETRIES returns fsm_state EXECUTE with the directive
\* executor and changes no other field of the Task State (the audit event of
\* the step apart).
C25_SelfHealDispatchesExecutor ==
    [][(/\ node = "supervisor"
        /\ FsmOf(state) = START
        /\ state.plan # <<>>
        /\ state.retry_count < MAX_RETRIES)
       => /\ node' = "executor"
          /\ state' = [state EXCEPT !.fsm_state = EXECUTE,
                                    !.next_agent = "executor",
                                    !.events = state'.events]]_vars

\* C26: the Supervisor step that sees approved = true in CRITIQUE moves to
\* ADVANCE and the node executed next is the Supervisor again, with no
\* planner, executor or critic invocation in between.
C26_AdvanceIsZeroIoTick ==
    [][(SupervisorIn(CRITIQUE) /\ state.is_approved = True)
       => /\ state'.fsm_state = ADVANCE
          /\ node' = "supervisor"]_vars

\* C27: a Supervisor step taken in ADVANCE with step_index + 1 < len(plan)
\* returns fsm_state EXECUTE and the directive executor, step_index + 1,
\* current_step = plan[new step_index], retry_count 0 and execution_result,
\* critique and is_approved cleared; plan, goal, execution_history,
\* last_output (and final_output) are unchanged.
C27_AdvanceToNextStep ==
    [][(SupervisorIn(ADVANCE) /\ state.current_step_index + 1 < Len(state.plan))
       => /\ state' = [state EXCEPT
                          !.fsm_state = EXECUTE,
                          !.next_agent = "executor",
                          !.current_step_index = state.current_step_index + 1,
                          !.current_step = state.plan[state.current_step_index + 2],
                          !.retry_count = 0,
                          !.execution_result = None,
                          !.critique = None,
                          !.is_approved = None,
                          !.events = state'.events]
          /\ node' \in {"executor", "recursion_error"}]_vars

\* the Supervisor has advanced from step A to step B, the output of A kept
C27_Witness ==
    /\ node = "executor"
    /\ state.events # <<>>
    /\ LastEvent.action = "advance_step"
    /\ state.current_step_index = 1
    /\ state.current_step = "B"
    /\ state.retry_count = 0
    /\ state.last_executor_output = "y"

C29_Original ==
    [][SupervisorIn(CRITIQUE) => state'.execution_result = None]_vars

\* C29 amended: a rejection clears execution_result; an approval keeps it
\* through ADVANCE, where it is cleared only if a further step follows (the
\* last step's ADVANCE reads it as a fallback for final_output and keeps it).
C29_ResultClearedOnRejection ==
    [][/\ (SupervisorIn(CRITIQUE) /\ state.is_approved # True)
            => state'.execution_result = None
       /\ (SupervisorIn(CRITIQUE) /\ state.is_approved = True)
            => /\ state'.fsm_state = ADVANCE
               /\ state'.execution_result = state.execution_result
       /\ (SupervisorIn(ADVANCE) /\ state.current_step_index + 1 < Len(state.plan))
            => state'.execution_result = None
       /\ (SupervisorIn(ADVANCE) /\ state.current_step_index + 1 >= Len(state.plan))
            => state'.execution_result = state.execution_result]_vars

\* the Supervisor has approved a result and the result is still in the state
C29_Witness ==
    /\ state.fsm_state = ADVANCE
    /\ state.events # <<>>
    /\ LastEvent.action = "approved"
    /\ state.execution_result = "x"

\* C30: last_output always holds the most recent content an executor
\* invocation returned: once set, no Supervisor step, failed executor
\* invocation or critic step empties it.
C30_LastOutputKept ==
    state.last_executor_output = LatestContent

\* after a good output, a validation failure and a rejection, the good
\* output is still the last output
C30_Witness ==
    /\ Len(exec_log) = 3
    /\ exec_log[1][2] = "x"
    /\ exec_log[2][2] = None
    /\ exec_log[3][2] = None
    /\ Terminal
    /\ state.last_executor_output = "x"

\* C22: PATCH /sessions/{id} with a new title answers 'Session updated
\* successfully' and sets the title when the session exists, and answers 404
\* and changes nothing when it does not.
C22_PatchUpdatesTitle ==
    [][(patch = NoPatch /\ patch' # NoPatch)
       => IF patch'.session_id = OwnId /\ session.exists
          THEN /\ patch'.status = 200
               /\ patch'.detail = "Session updated successfully"
               /\ session' = [session EXCEPT !.title = patch'.title]
          ELSE /\ patch'.status = 404
               /\ session' = session]_vars

\* C21: of two runs executing side by side, a step of one never changes the
\* Task State of the other (events, plan, execution_history, retry_count,
\* final_output and the rest), and each step of a run yields what the node
\* yields on that run's own Task State alone.
C21_RunsShareNoTaskState ==
    [][\A r \in RunIds :
         /\ runs'[r].ticks = runs[r].ticks
              => ViewOf(runs', heap', r) = ViewOf(runs, heap, r)
         /\ runs'[r].ticks # runs[r].ticks
              => ViewOf(runs', heap', r) \in AloneSuccessors(PairView(r), runs[r].node)]_vars

\* both runs have finished, one on an executor output and one on the fallback
\* message, each with the events of its own Supervisor steps only
C21_Witness ==
    /\ runs[1].node = "END"
    /\ runs[2].node = "END"
    /\ PairView(1).final_output = "x"
    /\ PairView(2).final_output = RetryFallback
    /\ \A r \in RunIds :
          Len(PairView(r).events) * 2 = runs[r].ticks + 1

\* C31: execution_history is append-only within a run: a successful executor
\* invocation appends exactly the content it returned, every other step
\* leaves the history as it is, and a non-empty history ends with
\* last_output.
C31_HistoryAppendOnly ==
    [][/\ IF /\ node = "executor"
             /\ Len(exec_log') = Len(exec_log) + 1
             /\ exec_log'[Len(exec_log')][2] # None
          THEN state'.execution_history =
                   Append(state.execution_history, exec_log'[Len(exec_log')][2])
          ELSE state'.execution_history = state.execution_history
       /\ state'.execution_history # <<>>
            => state'.execution_history[Len(state'.execution_history)]
                  = state'.last_executor_output]_vars

\* two successful invocations with a failed one between them have left
\* their two contents in the history, in order
C31_Witness ==
    /\ Len(exec_log) = 3
    /\ exec_log[1][2] = "x"
    /\ exec_log[2][2] = None
    /\ exec_log[3][2] = "y"
    /\ Terminal
    /\ state.execution_history = <<"x", "y">>

\* C32: whenever the plan is non-empty, the cursor is inside the plan and
\* current_step is the plan's element at step_index, so every executor and
\* critic invocation sees the text of the step the cursor points at.
C32_CurrentStepAtCursor ==
    state.plan # <<>>
    => /\ state.current_step_index < Len(state.plan)
       /\ state.current_step = state.plan[state.current_step_index + 1]

\* the critic is about to judge the second step of a two-step plan
C32_Witness ==
    /\ node = "critic"
    /\ Len(state.plan) = 2
    /\ state.current_step_index = 1
    /\ state.current_step = state.plan[2]
    /\ state.events # <<>>
    /\ LastEvent.action = "executing"
    /\ \E i \in DOMAIN state.events : state.events[i].action = "advance_step"

\* C33: only the Supervisor changes the control fields: every planner,
\* executor and critic invocation leaves fsm_state, retry_count, the routing
\* directive (next_agent) and final_output as they were.
C33_PerformersLeaveControlFields ==
    [][(node \in {"planner", "executor", "critic"} /\ node' # "outage")
       => /\ state'.fsm_state = state.fsm_state
          /\ state'.retry_count = state.retry_count
          /\ state'.next_agent = state.next_agent
          /\ state'.final_output = state.final_output]_vars

\* C35: from the initial Task State, whatever the performers return, the run
\* reaches the terminal directive within 25 node executions (Supervisor
\* invocations plus performer invocations): the graph's iteration ceiling is
\* never hit.
C35_WithinIterationCeiling ==
    /\ ticks <= RECURSION_LIMIT
    /\ node # "recursion_error"

\* the longest run: the planner, then three executor invocations each
\* rejected, and the retry guard on the fifteenth node execution
C35_Witness ==
    /\ node = "END"
    /\ ticks = 15
    /\ Len(exec_log) = MAX_RETRIES
    /\ state.retry_count = MAX_RETRIES

\* C36: every terminal state reachable from the initial Task State carries a
\* non-empty final_output, also when every executor attempt failed
\* validation, so /run never answers 'Agent execution produced no output'
\* for a run that terminated.
C36_TerminalOutputNonEmpty ==
    /\ (node = "END" \/ FsmOf(state) \in {COMPLETE, FAIL})
          => Truthy(state.final_output)
    /\ http.detail # "Agent execution produced no output"

\* every executor attempt failed validation and /run answered with the
\* fallback message
C36_Witness ==
    /\ node = "done"
    /\ Len(exec_log) = MAX_RETRIES
    /\ \A k \in DOMAIN exec_log : exec_log[k][2] = None
    /\ http.status = 200
    /\ http.final_output = RetryFallback

\* the roles of a document's messages, in order
Roles(doc) == [i \in DOMAIN doc.messages |-> doc.messages[i].role]

\* C34: within one /run request the store is written in order: the session
\* is created, then the user message appended, then the graph runs without
\* touching the store, then the assistant message is appended, only on a
\* non-empty final_output, with events, plan and execution_history as its
\* metadata. Each append pushes one message and bumps updated_at in the same
\* write; the message list of a session only grows and the user record
\* precedes the assistant record.
C34_PersistenceOrdered ==
    [][/\ session' # session
            => \/ /\ node = "create_session"
                  /\ ~session.exists
                  /\ session' = create_session(Title(state.user_goal))
               \/ /\ node = "add_user_message"
                  /\ ticks = 0
                  /\ session.exists
                  /\ session' = [session EXCEPT
                         !.messages = Append(@, Message("user", state.user_goal, None)),
                         !.updated_at = @ + 1]
               \/ /\ node = "END"
                  /\ Truthy(state.final_output)
                  /\ session.exists
                  /\ session' = [session EXCEPT
                         !.messages = Append(@, Message("assistant", state.final_output,
                                                        Metadata(state))),
                         !.updated_at = @ + 1]
               \/ ~session'.exists
       /\ (session.exists /\ session'.exists)
            => /\ Len(session'.messages) >= Len(session.messages)
               /\ SubSeq(session'.messages, 1, Len(session.messages)) = session.messages
       /\ session'.exists
            => /\ Roles(session') \in {<<>>, <<"user">>, <<"user", "assistant">>}
               /\ ticks' > 0 => Roles(session')[1] = "user"]_vars

\* the request is answered and its session holds the user's goal and then
\* the assistant's answer with the run's outputs as metadata, after three writes
C34_Witness ==
    /\ node = "done"
    /\ http.status = 200
    /\ session.exists
    /\ Roles(session) = <<"user", "assistant">>
    /\ session.updated_at = 2
    /\ session.messages[2].metadata.execution_history = <<"x">>
    /\ session.messages[2].metadata.events = state.events

\* C37: whenever /run answers with success, the stored session exists and
\* its messages end with the user's goal followed by the assistant's
\* final_output, whatever other requests (a DELETE of the session among
\* them) arrived while the run was in progress.
C37_SuccessMeansStored ==
    [][(http.status = 0 /\ http'.status = 200)
       => /\ session'.exists
          /\ Len(session'.messages) >= 2
          /\ LET n == Len(session'.messages) IN
                /\ session'.messages[n - 1].role = "user"
                /\ session'.messages[n - 1].content = state.user_goal
                /\ session'.messages[n].role = "assistant"
                /\ session'.messages[n].content = http'.final_output]_vars

====
